---- MODULE Spec2Model ----
(***************************************************************************)
(* joob: Operation, Job and Queue (src/unnamed/part_005, part_008).        *)
(*                                                                         *)
(* JavaScript runs one callback at a time, so every action below is one    *)
(* whole callback: a caller's queueJob, a timer firing, or a transform's   *)
(* promise settling.  Everything a callback calls synchronously            *)
(* (EventEmitter.emit runs its listeners before it returns) is part of the *)
(* same action.  The callbacks are written as operators over the record    *)
(* State, so that nested and recursive calls thread the state through.     *)
(***************************************************************************)
EXTENDS Integers, Sequences, FiniteSets, TLC

\* ------------------------------------------------------------------ bounds
NJobs == 2            \* jobs a caller submits to the queue
MaxData == 2          \* longest data list of a job
MaxConcurrent == 2    \* largest maxConcurrentOperations
MaxFailures == 2      \* largest maxFailuresPerOperation
Delays == {0, 1}      \* cooldown and throttle values, in clock ticks
MaxRestarts == 1      \* times a caller's further start() calls may restart a job or an operation
MaxOrderData == 1     \* longest data list where one job more than NJobs is submitted

\* the names of the jobs, in the order a caller submits them; the last one is
\* submitted only where the order of more than NJobs jobs is examined
JobNames == 1..(NJobs + 1)
OpIds == 1..MaxData   \* dataToId: the id of the i-th data element is i

\* index.ts STATUSES
PENDING == "PENDING"
STARTED == "STARTED"
COMPLETED == "COMPLETED"
FAILED == "FAILED"

\* Operation.ts Events, Job.ts Events
OPERATION_STARTED == "OPERATION_STARTED"
OPERATION_COMPLETED == "OPERATION_COMPLETED"
OPERATION_FAILED == "OPERATION_FAILED"
JOB_STARTED == "JOB_STARTED"
JOB_COMPLETED == "JOB_COMPLETED"

\* the value of currentOperations[id] for an id that is not in the map
Undefined == 0
\* Queue.currentJob when no job runs
NoJob == 0

VARIABLES
  jobs,     \* jobs[j]: the fields of Job j
  ops,      \* ops[j][o]: the fields of Operation o of Job j, and its once-listeners
  queue,    \* the fields of the Queue
  timers,   \* the pending setTimeout callbacks: for each delay in use, the list of
            \* the timers armed with that delay, in the order they were armed
  hist      \* what an observer of the event channels has seen so far

vars == <<jobs, ops, queue, timers, hist>>

State == [jobs |-> jobs, ops |-> ops, queue |-> queue, timers |-> timers, hist |-> hist]

Commit(s) ==
  /\ jobs' = s.jobs
  /\ ops' = s.ops
  /\ queue' = s.queue
  /\ timers' = s.timers
  /\ hist' = s.hist

\* ------------------------------------------------------------- constructors
\* new Operation(id, resolver, data)
NewOperation ==
  [status |-> PENDING, result |-> "unset", timesFailed |-> 0,
   onStarted |-> 0, onCompleted |-> 0, onFailed |-> 0]

\* a Job that has not been constructed yet
NoJobYet ==
  [constructed |-> FALSE, data |-> 0,
   maxConcurrentOperations |-> 1, maxFailuresPerOperation |-> 1,
   cooldown |-> 0, throttle |-> 0,
   status |-> PENDING, queuedOperations |-> <<>>, currentOperations |-> {},
   numCurrentOperations |-> 0, completedOperations |-> <<>>,
   onJobCompleted |-> <<>>, forwarders |-> 0]

\* new Job(name, resolver, data, params): one queued Operation per data element
NewJob(n, conc, fail, cool, thr) ==
  [constructed |-> TRUE, data |-> n,
   maxConcurrentOperations |-> conc, maxFailuresPerOperation |-> fail,
   cooldown |-> cool, throttle |-> thr,
   status |-> PENDING, queuedOperations |-> [i \in 1..n |-> i], currentOperations |-> {},
   numCurrentOperations |-> 0, completedOperations |-> <<>>,
   onJobCompleted |-> <<>>, forwarders |-> 0]

\* new Queue({}): no directory to persist completed jobs to.  files are the
\* names of the <name>.json files of that directory, writing the names of the
\* files a writeFile is still writing
NewQueue ==
  [queuedJobs |-> <<>>, completedJobs |-> <<>>, currentJob |-> NoJob, jobIndex |-> {},
   persistCompletedJobsToDir |-> FALSE, files |-> {}, writing |-> {}]

\* the messages of the errors of Queue.ts
NoExportDirectory == "No export directory passed into queue."
JobNotFound == "Job not found."

NoSnapshot == [taken |-> FALSE]

NewHist ==
  [jobStarted |-> [j \in JobNames |-> 0],
   jobCompleted |-> [j \in JobNames |-> 0],
   opSignals |-> [j \in JobNames |-> [o \in OpIds |->
                    [started |-> 0, completed |-> 0, failed |-> 0]]],
   cooldownArmed |-> [j \in JobNames |-> 0],
   cooldownFired |-> [j \in JobNames |-> 0],
   admissions |-> [j \in JobNames |-> [o \in OpIds |-> 0]],
   scheduled |-> [j \in JobNames |-> [o \in OpIds |-> {}]],
   owed |-> [j \in JobNames |-> [o \in OpIds |-> {}]],
   overtaken |-> [j \in JobNames |-> [o \in OpIds |-> {}]],
   operationStarted |-> [j \in JobNames |-> [o \in OpIds |-> 0]],
   forwarded |-> [j \in JobNames |-> [o \in OpIds |->
                    [started |-> 0, completed |-> 0, failed |-> 0]]],
   invocations |-> [j \in JobNames |-> [o \in OpIds |-> 0]],
   resolved |-> [j \in JobNames |-> [o \in OpIds |-> 0]],
   finalized |-> [j \in JobNames |-> [o \in OpIds |-> NoSnapshot]],
   atCompletion |-> [j \in JobNames |-> NoSnapshot],
   queuePromise |-> [j \in JobNames |-> <<>>],
   exports |-> [j \in JobNames |-> 0],
   startOrder |-> <<>>,
   query |-> [call |-> "none"],
   queueEvents |-> <<>>]

Init ==
  /\ jobs = [j \in JobNames |-> NoJobYet]
  /\ ops = [j \in JobNames |-> [o \in OpIds |-> NewOperation]]
  /\ queue = NewQueue
  /\ timers = <<>>   \* the function with the empty domain
  /\ hist = NewHist


\* ------------------------------------------------------------------ timers
\* setTimeout(callback, delay): the callback waits at the tail of the list of
\* its delay (the runtime keeps one list of timers per delay, each in the order
\* of arming, and runs the lists by expiry time)
SetTimeout(s, callback, j, o, delay) ==
  LET t == [callback |-> callback, job |-> j, op |-> o, remaining |-> delay]
  IN [s EXCEPT !.timers = IF delay \in DOMAIN @
                          THEN [@ EXCEPT ![delay] = Append(@, t)]
                          ELSE @ @@ (delay :> <<t>>)]

\* the timers without the head of the list of delay d
PopTimer(tm, d) ==
  IF Len(tm[d]) = 1
  THEN [k \in DOMAIN tm \ {d} |-> tm[k]]
  ELSE [tm EXCEPT ![d] = Tail(@)]

\* the elements of a sequence
Range(q) == {q[i] : i \in DOMAIN q}

\* ------------------------------------------------------------------- Job
RECURSIVE StartNextOperation(_, _, _)
RECURSIVE RunJobCompletedListeners(_, _, _)
RECURSIVE StartNextJob(_)
RECURSIVE RunOperationCompletedListeners(_, _, _, _)
RECURSIVE RunOperationFailedListeners(_, _, _, _)

\* isFull with the comparison off by one: a full job still admits one more
isFullOffByOne(s, j) ==
  s.jobs[j].numCurrentOperations > s.jobs[j].maxConcurrentOperations

\* isFull answering one operation early: the last slot is never used
isFullOneEarly(s, j) ==
  s.jobs[j].numCurrentOperations + 1 >= s.jobs[j].maxConcurrentOperations

\* Job.isFull
isFull(s, j) ==
  s.jobs[j].numCurrentOperations >= s.jobs[j].maxConcurrentOperations

\* Job.hasPending
hasPending(s, j) == Len(s.jobs[j].queuedOperations) > 0

\* Job.isComplete
isComplete(s, j) == s.jobs[j].numCurrentOperations = 0 /\ ~hasPending(s, j)

\* the operations of Job j that have a scheduled start() waiting in the timers
ScheduledStarts(s, j) ==
  {o \in OpIds : \E d \in DOMAIN s.timers : \E i \in DOMAIN s.timers[d] :
                    /\ s.timers[d][i].callback = "start"
                    /\ s.timers[d][i].job = j
                    /\ s.timers[d][i].op = o}

\* the operations of Job j whose transform has been invoked and has not settled
Executing(s, j) == {o \in OpIds : s.ops[j][o].status = STARTED}

\* Job.emit(JOB_STARTED): the only listeners are the Queue's forwarders
EmitJobStarted(s, j) ==
  LET s1 == [s EXCEPT !.hist.jobStarted[j] = @ + 1,
                      !.hist.startOrder = Append(@, j)]
  IN IF s1.jobs[j].forwarders > 0
     THEN [s1 EXCEPT !.hist.queueEvents = Append(@, <<JOB_STARTED, j>>)]
     ELSE s1

\* Queue.exportJobIfNeeded: fs.writeFile completes in a later callback
ExportJobIfNeeded(s, j) ==
  IF s.queue.persistCompletedJobsToDir
  THEN [s EXCEPT !.queue.writing = @ \cup {j},
                 !.hist.exports[j] = @ + 1]
  ELSE s

\* Queue.handleJobComplete
HandleJobComplete(s) ==
  StartNextJob([s EXCEPT !.queue.completedJobs = Append(@, s.queue.currentJob),
                         !.queue.currentJob = NoJob])

\* the listeners of JOB_COMPLETED, run in the order they were registered:
\*   "handleJobComplete"  Queue.startNextJob, events.on
\*   "forward"            Queue.forwardJobEvents, events.on
\*   "startPromise"       Job.start, onComplete(resolve), events.once
\*   "queuePromise"       Queue.queueJob, job.onComplete(...), events.once:
\*                        resolve(name), the name being the argument of the emit
RunJobCompletedListeners(s, j, listeners) ==
  IF listeners = <<>> THEN s
  ELSE LET l == Head(listeners)
           s1 == IF l = "handleJobComplete" THEN HandleJobComplete(s)
                 ELSE IF l = "forward"
                      THEN [s EXCEPT !.hist.queueEvents = Append(@, <<JOB_COMPLETED, j>>)]
                 ELSE IF l = "queuePromise"
                      THEN ExportJobIfNeeded(
                             [s EXCEPT !.hist.queuePromise[j] = Append(@, j)], j)
                 ELSE s
       IN RunJobCompletedListeners(s1, j, Tail(listeners))

IsOnceListener(l) == l \in {"startPromise", "queuePromise"}

\* Job.emit(JOB_COMPLETED)
EmitJobCompleted(s, j) ==
  LET listeners == s.jobs[j].onJobCompleted
      s1 == [s EXCEPT
               !.hist.jobCompleted[j] = @ + 1,
               !.hist.atCompletion[j] =
                  [taken |-> TRUE,
                   backlogEmpty |-> s.jobs[j].queuedOperations = <<>>,
                   inFlightEmpty |-> s.jobs[j].currentOperations = {},
                   noneExecuting |-> Executing(s, j) = {},
                   noneScheduled |-> ScheduledStarts(s, j) = {}],
               !.jobs[j].onJobCompleted = SelectSeq(@, LAMBDA l : ~IsOnceListener(l))]
  IN RunJobCompletedListeners(s1, j, listeners)

\* the throttle being the same for every retry, however often it failed
ThrottleDelayFlat(s, j, o) ==
  IF s.ops[j][o].timesFailed > 0 THEN s.jobs[j].throttle ELSE 0

\* the delay of the start() of an admitted operation
ThrottleDelay(s, j, o) == s.ops[j][o].timesFailed * s.jobs[j].throttle

\* the operations that should be admitted before o is: those that were in the
\* backlog when o was pushed back and have not been admitted since and, at the
\* first admission of o, the data elements before o that were never admitted
Waiting(s, j, o) ==
  s.hist.owed[j][o]
  \cup (IF s.hist.admissions[j][o] = 0
        THEN {p \in 1..(o - 1) : s.hist.admissions[j][p] = 0}
        ELSE {})

\* Job.startNextOperation
StartNextOperation(s, j, cooled) ==
  IF s.jobs[j].cooldown # 0 /\ ~cooled
  THEN SetTimeout([s EXCEPT !.hist.cooldownArmed[j] = @ + 1],
                  "startNextOperation", j, 0, s.jobs[j].cooldown)
  ELSE IF isFull(s, j) THEN s
  ELSE IF isComplete(s, j)
       THEN IF s.jobs[j].status = COMPLETED THEN s
            ELSE EmitJobCompleted([s EXCEPT !.jobs[j].status = COMPLETED], j)
  ELSE IF hasPending(s, j)
       THEN LET newOperation == Head(s.jobs[j].queuedOperations)
                s1 == [s EXCEPT
                         !.jobs[j].queuedOperations = Tail(@),
                         !.jobs[j].currentOperations = @ \cup {newOperation},
                         !.jobs[j].numCurrentOperations = @ + 1,
                         !.ops[j][newOperation].onStarted = @ + 1,
                         !.ops[j][newOperation].onCompleted = @ + 1,
                         !.ops[j][newOperation].onFailed = @ + 1,
                         !.hist.admissions[j][newOperation] = @ + 1,
                         !.hist.overtaken[j][newOperation] =
                            @ \cup Waiting(s, j, newOperation),
                         !.hist.owed[j] =
                            [o \in OpIds |-> IF o = newOperation THEN {}
                                             ELSE @[o] \ {newOperation}]]
                delay == ThrottleDelay(s1, j, newOperation)
                s2 == SetTimeout(
                        [s1 EXCEPT !.hist.scheduled[j][newOperation] =
                           @ \cup {[timesFailed |-> s1.ops[j][newOperation].timesFailed,
                                    delay |-> delay]}],
                        "start", j, newOperation, delay)
            IN StartNextOperation(s2, j, FALSE)
       ELSE s

\* Job.emitOperation: the signal on the Job's channel, which each forwarder
\* of the Queue re-emits on queue.events with the same arguments
EmitOperation(s, j, signal, o) ==
  IF signal = OPERATION_STARTED
  THEN [s EXCEPT !.hist.opSignals[j][o].started = @ + 1,
                 !.hist.forwarded[j][o].started = @ + s.jobs[j].forwarders]
  ELSE IF signal = OPERATION_COMPLETED
       THEN [s EXCEPT !.hist.opSignals[j][o].completed = @ + 1,
                      !.hist.forwarded[j][o].completed = @ + s.jobs[j].forwarders]
       ELSE [s EXCEPT !.hist.opSignals[j][o].failed = @ + 1,
                      !.hist.forwarded[j][o].failed = @ + s.jobs[j].forwarders]

\* handleOperationComplete calling the dispatcher as if the cooldown had
\* elapsed: the cooldown applies to the first dispatch of the job only
HandleOperationCompleteCooled(s, j, id, final) ==
  LET operation == IF id \in s.jobs[j].currentOperations THEN id ELSE Undefined
      s1 == IF final
            THEN [s EXCEPT !.jobs[j].completedOperations = Append(@, operation)]
            ELSE s
      s2 == [s1 EXCEPT !.jobs[j].currentOperations = @ \ {id},
                       !.jobs[j].numCurrentOperations = @ - 1]
  IN StartNextOperation(s2, j, TRUE)

\* Job.handleOperationComplete
HandleOperationComplete(s, j, id, final) ==
  LET operation == IF id \in s.jobs[j].currentOperations THEN id ELSE Undefined
      s1 == IF final
            THEN [s EXCEPT
                    !.jobs[j].completedOperations = Append(@, operation),
                    !.hist.finalized[j][id] =
                       IF operation = Undefined THEN @
                       ELSE [taken |-> TRUE,
                             timesFailed |-> s.ops[j][id].timesFailed,
                             failedSignals |-> s.hist.opSignals[j][id].failed,
                             status |-> s.ops[j][id].status,
                             result |-> s.ops[j][id].result,
                             invocations |-> s.hist.invocations[j][id]]]
            ELSE s
      s2 == [s1 EXCEPT !.jobs[j].currentOperations = @ \ {id},
                       !.jobs[j].numCurrentOperations = @ - 1]
  IN StartNextOperation(s2, j, FALSE)

\* the once-listener of OPERATION_COMPLETED that startNextOperation registers
OnOperationCompleted(s, j, id) ==
  HandleOperationComplete(EmitOperation(s, j, OPERATION_COMPLETED, id), j, id, TRUE)

\* the listener of OPERATION_FAILED re-admitting a retry at once, with no
\* cooldown of its own
OnOperationFailedRetryAtOnce(s, j, id) ==
  LET s1 == EmitOperation(s, j, OPERATION_FAILED, id)
  IN IF s1.ops[j][id].timesFailed < s1.jobs[j].maxFailuresPerOperation
     THEN HandleOperationCompleteCooled(
            [s1 EXCEPT !.jobs[j].queuedOperations = Append(@, id)], j, id, FALSE)
     ELSE HandleOperationComplete(s1, j, id, TRUE)

\* the listener of OPERATION_FAILED with the budget test off by one: an
\* operation that has used up its failures is retried once more
OnOperationFailedOneMore(s, j, id) ==
  LET s1 == EmitOperation(s, j, OPERATION_FAILED, id)
  IN IF s1.ops[j][id].timesFailed <= s1.jobs[j].maxFailuresPerOperation
     THEN HandleOperationComplete(
            [s1 EXCEPT !.jobs[j].queuedOperations = Append(@, id)], j, id, FALSE)
     ELSE HandleOperationComplete(s1, j, id, TRUE)

\* the listener of OPERATION_FAILED putting the failed operation at the head
\* of the backlog: a retry goes before the pending first attempts
OnOperationFailedRetryFirst(s, j, id) ==
  LET s1 == EmitOperation(s, j, OPERATION_FAILED, id)
  IN IF s1.ops[j][id].timesFailed < s1.jobs[j].maxFailuresPerOperation
     THEN HandleOperationComplete(
            [s1 EXCEPT !.jobs[j].queuedOperations = <<id>> \o @,
                       !.hist.owed[j][id] = Range(s1.jobs[j].queuedOperations) \ {id}],
            j, id, FALSE)
     ELSE HandleOperationComplete(s1, j, id, TRUE)

\* the once-listener of OPERATION_FAILED that startNextOperation registers
OnOperationFailed(s, j, id) ==
  LET s1 == EmitOperation(s, j, OPERATION_FAILED, id)
  IN IF s1.ops[j][id].timesFailed < s1.jobs[j].maxFailuresPerOperation
     THEN HandleOperationComplete(
            [s1 EXCEPT !.jobs[j].queuedOperations = Append(@, id),
                       !.hist.owed[j][id] = Range(s1.jobs[j].queuedOperations) \ {id}],
            j, id, FALSE)
     ELSE HandleOperationComplete(s1, j, id, TRUE)

\* start calling the dispatcher as if the cooldown had elapsed
JobStartCooled(s, j) ==
  IF s.jobs[j].status = STARTED THEN s
  ELSE LET s1 == EmitJobStarted([s EXCEPT !.jobs[j].status = STARTED], j)
           s2 == StartNextOperation(s1, j, TRUE)
       IN [s2 EXCEPT !.jobs[j].onJobCompleted = Append(@, "startPromise")]

\* Job.start
JobStart(s, j) ==
  IF s.jobs[j].status = STARTED THEN s
  ELSE LET s1 == EmitJobStarted([s EXCEPT !.jobs[j].status = STARTED], j)
           s2 == StartNextOperation(s1, j, FALSE)
       IN [s2 EXCEPT !.jobs[j].onJobCompleted = Append(@, "startPromise")]

\* Operation.export (the data element of the operation with id o is o)
OperationExport(s, j, o) ==
  [id |-> o, data |-> o, status |-> s.ops[j][o].status, result |-> s.ops[j][o].result]

\* Job.export: the operations of operationIndex, one per id, in the order of
\* the data list
JobExport(s, j) ==
  [name |-> j,
   operationsCompleted |-> Len(s.jobs[j].completedOperations),
   operations |-> [o \in 1..s.jobs[j].data |-> OperationExport(s, j, o)]]

\* -------------------------------------------------------------- Operation
\* n listeners taken from the registry by one emit, run one after the other
RunOperationCompletedListeners(s, j, o, n) ==
  IF n = 0 THEN s
  ELSE RunOperationCompletedListeners(OnOperationCompleted(s, j, o), j, o, n - 1)

RunOperationFailedListeners(s, j, o, n) ==
  IF n = 0 THEN s
  ELSE RunOperationFailedListeners(OnOperationFailed(s, j, o), j, o, n - 1)

\* Operation.emit(OPERATION_FAILED): emit runs the listeners registered when it
\* is called; each once-listener is removed, one registered meanwhile waits for
\* the next emit
EmitOperationFailed(s, j, o) ==
  RunOperationFailedListeners([s EXCEPT !.ops[j][o].onFailed = 0], j, o,
                              s.ops[j][o].onFailed)

\* Operation.emit(OPERATION_COMPLETED)
EmitOperationCompleted(s, j, o) ==
  RunOperationCompletedListeners([s EXCEPT !.ops[j][o].onCompleted = 0], j, o,
                                 s.ops[j][o].onCompleted)

\* Operation.emit(OPERATION_STARTED): each listener only forwards the signal
EmitOperationStarted(s, j, o) ==
  [s EXCEPT !.ops[j][o].onStarted = 0,
            !.hist.operationStarted[j][o] = @ + 1,
            !.hist.opSignals[j][o].started = @ + s.ops[j][o].onStarted,
            !.hist.forwarded[j][o].started =
               @ + s.ops[j][o].onStarted * s.jobs[j].forwarders]

\* Operation.start, up to the call of the transform
OperationStart(s, j, o) ==
  IF s.ops[j][o].status = STARTED THEN s
  ELSE LET s1 == EmitOperationStarted([s EXCEPT !.ops[j][o].status = STARTED], j, o)
       IN [s1 EXCEPT !.hist.invocations[j][o] = @ + 1]

\* Operation.start, the .then callback
OperationThen(s, j, o) ==
  EmitOperationCompleted(
    [s EXCEPT !.ops[j][o].status = COMPLETED, !.ops[j][o].result = "value",
              !.hist.resolved[j][o] = @ + 1], j, o)

\* Operation.start, the .catch callback
OperationCatch(s, j, o) ==
  LET s1 == [s EXCEPT !.ops[j][o].status = FAILED, !.ops[j][o].result = "error",
                      !.ops[j][o].timesFailed = @ + 1]
  IN EmitOperationFailed(EmitOperationFailed(s1, j, o), j, o)

\* ------------------------------------------------------------------ Queue
\* Queue.isRunning
isRunning(s) == s.queue.currentJob # NoJob

\* Queue.isPending
isPending(s) == Len(s.queue.queuedJobs) > 0

\* Queue.forwardJobEvents
ForwardJobEvents(s, j) ==
  [s EXCEPT !.jobs[j].forwarders = @ + 1,
            !.jobs[j].onJobCompleted = Append(@, "forward")]

\* startNextJob starting the job before it sets up the forwarding
StartNextJobForwardLate(s) ==
  IF ~isRunning(s) /\ isPending(s)
  THEN LET currentJob == Head(s.queue.queuedJobs)
           s1 == [s EXCEPT !.queue.queuedJobs = Tail(@),
                           !.queue.currentJob = currentJob,
                           !.jobs[currentJob].onJobCompleted =
                              Append(@, "handleJobComplete")]
       IN ForwardJobEvents(JobStart(s1, currentJob), currentJob)
  ELSE s

\* startNextJob without the test for a running job
StartNextJobWhileRunning(s) ==
  IF isPending(s)
  THEN LET currentJob == Head(s.queue.queuedJobs)
           s1 == [s EXCEPT !.queue.queuedJobs = Tail(@),
                           !.queue.currentJob = currentJob,
                           !.jobs[currentJob].onJobCompleted =
                              Append(@, "handleJobComplete")]
       IN JobStart(ForwardJobEvents(s1, currentJob), currentJob)
  ELSE s

\* startNextJob taking the job submitted last (pop) instead of the head of
\* queuedJobs (shift)
StartNextJobLastIn(s) ==
  IF ~isRunning(s) /\ isPending(s)
  THEN LET queued == s.queue.queuedJobs
           currentJob == queued[Len(queued)]
           s1 == [s EXCEPT !.queue.queuedJobs = SubSeq(queued, 1, Len(queued) - 1),
                           !.queue.currentJob = currentJob,
                           !.jobs[currentJob].onJobCompleted =
                              Append(@, "handleJobComplete")]
       IN JobStart(ForwardJobEvents(s1, currentJob), currentJob)
  ELSE s

\* Queue.startNextJob
StartNextJob(s) ==
  IF ~isRunning(s) /\ isPending(s)
  THEN LET currentJob == Head(s.queue.queuedJobs)
           s1 == [s EXCEPT !.queue.queuedJobs = Tail(@),
                           !.queue.currentJob = currentJob,
                           !.jobs[currentJob].onJobCompleted =
                              Append(@, "handleJobComplete")]
       IN JobStart(ForwardJobEvents(s1, currentJob), currentJob)
  ELSE s

\* Queue.queueJob
QueueJobCall(s, j) ==
  LET s1 == [s EXCEPT !.queue.queuedJobs = Append(@, j),
                      !.queue.jobIndex = @ \cup {j}]
      s2 == StartNextJob(s1)
  IN [s2 EXCEPT !.jobs[j].onJobCompleted = Append(@, "queuePromise")]

\* --------------------------------------------------------- Queue queries
\* A promise is settled by the first resolve or reject call made for it; the
\* later calls do nothing.  calls are the calls an executor and its callbacks
\* make, in order; with no call the promise stays pending.
Resolve(v) == [kind |-> "resolve", value |-> v]
Reject(e) == [kind |-> "reject", value |-> e]
Pending == [kind |-> "pending"]
Settled(calls) == IF calls = <<>> THEN Pending ELSE Head(calls)

\* hasJob testing the configuration before it looks at the in-memory index
HasJobDirectoryFirst(s, name, includePersisted) ==
  Settled(
    (IF includePersisted /\ ~s.queue.persistCompletedJobsToDir
     THEN <<Reject(NoExportDirectory)>> ELSE <<>>)
    \o (IF name \in s.queue.jobIndex THEN <<Resolve(TRUE)>> ELSE <<>>)
    \o (IF includePersisted
        THEN <<Resolve(s.queue.persistCompletedJobsToDir /\ name \in s.queue.files)>>
        ELSE <<Resolve(FALSE)>>))

\* Queue.hasJob
HasJob(s, name, includePersisted) ==
  Settled(
    (IF name \in s.queue.jobIndex THEN <<Resolve(TRUE)>> ELSE <<>>)
    \o (IF includePersisted
        THEN (IF ~s.queue.persistCompletedJobsToDir
              THEN <<Reject(NoExportDirectory)>> ELSE <<>>)
             \* the callback of fs.access: resolve(!err)
             \o <<Resolve(s.queue.persistCompletedJobsToDir /\ name \in s.queue.files)>>
        ELSE <<Resolve(FALSE)>>))

\* Queue.getAllJobs: without a directory fs.readdir(undefined) throws after the
\* reject, which changes nothing; with one, its callback resolves with the
\* names in memory and the names of the files
GetAllJobs(s, includePersisted) ==
  Settled(
    IF includePersisted
    THEN (IF ~s.queue.persistCompletedJobsToDir
          THEN <<Reject(NoExportDirectory)>>
          ELSE <<Resolve(s.queue.jobIndex \cup s.queue.files)>>)
    ELSE <<Resolve(s.queue.jobIndex)>>)

\* getJobExport without the test of what hasJob answered
GetJobExportUnchecked(s, name, includePersisted) ==
  LET has == HasJob(s, name, includePersisted)
  IN IF has.kind = "reject" THEN Pending
     ELSE Settled(
       IF name \in s.queue.jobIndex THEN <<>>
       ELSE IF includePersisted
            THEN IF ~s.queue.persistCompletedJobsToDir THEN <<>>
                 ELSE IF name \in s.queue.files
                      THEN <<Resolve(<<"file", name>>)>>
                      ELSE <<Reject("ENOENT")>>
            ELSE <<Reject("undefined")>>)

\* Queue.getJobExport: the executor is an async function, so what it returns
\* and what it throws (a rejected await included) settle the promise of the
\* executor, not the promise getJobExport returns
GetJobExport(s, name, includePersisted) ==
  LET has == HasJob(s, name, includePersisted)
  IN IF has.kind = "reject" THEN Pending
     ELSE Settled(
       (IF ~has.value THEN <<Reject(JobNotFound)>> ELSE <<>>)
       \o (IF name \in s.queue.jobIndex THEN <<>>
           ELSE IF includePersisted
                THEN IF ~s.queue.persistCompletedJobsToDir THEN <<>>
                     \* the callback of fs.readFile
                     ELSE IF name \in s.queue.files
                          THEN <<Resolve(<<"file", name>>)>>
                          ELSE <<Reject("ENOENT")>>
                ELSE <<Reject("undefined")>>))

\* ---------------------------------------------------------------- actions
\* a caller constructs the first Job and submits it: new Job(...), queueJob(job)
QueueFirstJob ==
  /\ ~jobs[1].constructed
  /\ \E n \in 0..MaxData, conc \in 1..MaxConcurrent, fail \in 1..MaxFailures,
        cool \in Delays, thr \in Delays :
       Commit(QueueJobCall([State EXCEPT !.jobs[1] = NewJob(n, conc, fail, cool, thr)], 1))

\* a caller constructs a Job whose operations may fail once more than those of
\* the other jobs, and submits it
QueueRetryJob ==
  /\ ~jobs[1].constructed
  /\ \E n \in 0..MaxData, conc \in 1..MaxConcurrent, cool \in Delays, thr \in Delays :
       Commit(QueueJobCall(
         [State EXCEPT !.jobs[1] = NewJob(n, conc, MaxFailures + 1, cool, thr)], 1))

\* a caller constructs a further Job, with the JobParams of the first one and
\* a data list of its own, and submits it
QueueNextJob(j) ==
  /\ j > 1
  /\ ~jobs[j].constructed
  /\ jobs[j - 1].constructed
  /\ \E n \in 0..MaxData :
       Commit(QueueJobCall(
         [State EXCEPT !.jobs[j] = NewJob(n, jobs[1].maxConcurrentOperations,
                                          jobs[1].maxFailuresPerOperation,
                                          jobs[1].cooldown, jobs[1].throttle)], j))

\* the first timer of the list of delay d is due: within a list the timers
\* expire in the order they were armed; between lists the expiry time decides
Due(d) == d \in DOMAIN timers /\ Head(timers[d]).remaining = 0

\* the cooldown timer of startNextOperation fires: startNextOperation(true)
CooldownFires(d) ==
  /\ Due(d)
  /\ Head(timers[d]).callback = "startNextOperation"
  /\ Commit(StartNextOperation(
              [State EXCEPT !.timers = PopTimer(@, d),
                            !.hist.cooldownFired[Head(timers[d]).job] = @ + 1],
              Head(timers[d]).job, TRUE))

\* the timer startNextOperation armed for an admitted operation fires: start()
StartFires(d) ==
  /\ Due(d)
  /\ Head(timers[d]).callback = "start"
  /\ Commit(OperationStart([State EXCEPT !.timers = PopTimer(@, d)],
                           Head(timers[d]).job, Head(timers[d]).op))

\* time passes when no timer is due
Tick ==
  /\ DOMAIN timers # {}
  /\ \A d \in DOMAIN timers : \A i \in DOMAIN timers[d] : timers[d][i].remaining > 0
  /\ timers' = [d \in DOMAIN timers |->
                  [i \in DOMAIN timers[d] |-> [timers[d][i] EXCEPT !.remaining = @ - 1]]]
  /\ UNCHANGED <<jobs, ops, queue, hist>>

\* the promise of a transform invocation resolves
TransformResolves(j, o) ==
  /\ ops[j][o].status = STARTED
  /\ Commit(OperationThen(State, j, o))

\* the promise of a transform invocation rejects
TransformRejects(j, o) ==
  /\ ops[j][o].status = STARTED
  /\ Commit(OperationCatch(State, j, o))

\* the callbacks of the runtime: timers and settling promises
Runtime ==
  \/ \E d \in DOMAIN timers : CooldownFires(d)
  \/ \E d \in DOMAIN timers : StartFires(d)
  \/ Tick
  \/ \E j \in JobNames, o \in OpIds : TransformResolves(j, o)
  \/ \E j \in JobNames, o \in OpIds : TransformRejects(j, o)

\* a Queue to which a caller submits up to NJobs jobs
Next ==
  \/ QueueFirstJob
  \/ \E j \in 1..NJobs : QueueNextJob(j)
  \/ Runtime

Spec == Init /\ [][Next]_vars

\* a caller calls job.start() on a Job the Queue has started before
JobStartAgain(j) ==
  /\ jobs[j].status # PENDING
  /\ hist.jobStarted[j] <= MaxRestarts
  /\ Commit(JobStart(State, j))

\* a caller calls start() again on an Operation of the job (operationIndex is
\* public), after the start() of each of its dispatches has been called
OperationStartAgain(j, o) ==
  /\ hist.admissions[j][o] >= 1
  /\ o \notin ScheduledStarts(State, j)
  /\ hist.invocations[j][o] < hist.admissions[j][o] + MaxRestarts
  /\ Commit(OperationStart(State, j, o))

\* the fs.writeFile of exportJobIfNeeded has written <name>.json
WriteFileDone(j) ==
  /\ j \in queue.writing
  /\ queue' = [queue EXCEPT !.writing = @ \ {j}, !.files = @ \cup {j}]
  /\ UNCHANGED <<jobs, ops, timers, hist>>

\* a caller calls queue.getJobExport(name, includePersisted) and waits for the
\* promise to settle
GetJobExportCall(name, includePersisted) ==
  /\ hist' = [hist EXCEPT !.query =
                [call |-> "getJobExport", name |-> name,
                 includePersisted |-> includePersisted,
                 inMemory |-> name \in queue.jobIndex,
                 settled |-> GetJobExport(State, name, includePersisted)]]
  /\ UNCHANGED <<jobs, ops, queue, timers>>

\* a caller calls queue.hasJob(name, includePersisted) and waits for the
\* promise to settle
HasJobCall(name, includePersisted) ==
  /\ hist' = [hist EXCEPT !.query =
                [call |-> "hasJob", name |-> name,
                 includePersisted |-> includePersisted,
                 inMemory |-> name \in queue.jobIndex,
                 settled |-> HasJob(State, name, includePersisted)]]
  /\ UNCHANGED <<jobs, ops, queue, timers>>

\* a caller calls queue.getAllJobs(includePersisted) and waits for the promise
\* to settle
GetAllJobsCall(includePersisted) ==
  /\ hist' = [hist EXCEPT !.query =
                [call |-> "getAllJobs", name |-> NoJob,
                 includePersisted |-> includePersisted,
                 inMemory |-> FALSE,
                 settled |-> GetAllJobs(State, includePersisted)]]
  /\ UNCHANGED <<jobs, ops, queue, timers>>

\* a Queue to which a caller submits one job
NextJob ==
  \/ QueueFirstJob
  \/ Runtime

SpecJob == Init /\ [][NextJob]_vars

\* a Queue to which a caller submits one job with a larger failure budget
NextRetry ==
  \/ QueueRetryJob
  \/ Runtime

SpecRetry == Init /\ [][NextRetry]_vars

\* a Queue to which a caller submits one job, and the caller calls start()
\* again, on the job or on one of its operations
NextStart ==
  \/ QueueFirstJob
  \/ Runtime
  \/ \E j \in JobNames : JobStartAgain(j)
  \/ \E j \in JobNames, o \in OpIds : OperationStartAgain(j, o)

SpecStart == Init /\ [][NextStart]_vars

\* a caller constructs the next Job, a short one that runs one operation at a
\* time with no throttle, and submits it
QueueJobInTurn(j) ==
  /\ ~jobs[j].constructed
  /\ j > 1 => jobs[j - 1].constructed
  /\ \E n \in 0..MaxOrderData, cool \in Delays :
       Commit(QueueJobCall(
         [State EXCEPT !.jobs[j] = NewJob(n, 1, MaxFailures, cool, 0)], j))

\* a Queue to which a caller submits one job more than NJobs
NextOrder ==
  \/ \E j \in JobNames : QueueJobInTurn(j)
  \/ Runtime

SpecOrder == Init /\ [][NextOrder]_vars

\* new Queue({persistCompletedJobsToDir}): with or without a directory, which
\* may hold the files of jobs completed earlier
InitQuery ==
  /\ jobs = [j \in JobNames |-> NoJobYet]
  /\ ops = [j \in JobNames |-> [o \in OpIds |-> NewOperation]]
  /\ \E dir \in BOOLEAN :
       \E files \in (IF dir THEN SUBSET (1..NJobs) ELSE {{}}) :
         queue = [NewQueue EXCEPT !.persistCompletedJobsToDir = dir, !.files = files]
  /\ timers = <<>>
  /\ hist = NewHist

\* a Queue to which a caller submits one job and which the caller queries
NextQuery ==
  \/ QueueFirstJob
  \/ Runtime
  \/ \E j \in JobNames : WriteFileDone(j)
  \/ \E name \in 1..NJobs, includePersisted \in BOOLEAN :
       GetJobExportCall(name, includePersisted)
  \/ \E name \in 1..NJobs, includePersisted \in BOOLEAN :
       HasJobCall(name, includePersisted)
  \/ \E includePersisted \in BOOLEAN : GetAllJobsCall(includePersisted)

SpecQuery == InitQuery /\ [][NextQuery]_vars

\* ------------------------------------------------------------- properties
\* nothing is left to run: no timer is pending and no transform is executing
Quiescent ==
  /\ DOMAIN timers = {}
  /\ \A j \in JobNames : Executing(State, j) = {}

Data(j) == 1..jobs[j].data

\* C1: numCurrentOperations never exceeds maxConcurrentOperations
C1_InFlightWithinLimit ==
  \A j \in JobNames :
    jobs[j].numCurrentOperations <= jobs[j].maxConcurrentOperations

\* a job runs at its limit of two while a re-admitted operation is in flight
C1_Witness ==
  \E j \in JobNames :
    /\ jobs[j].maxConcurrentOperations = 2
    /\ jobs[j].numCurrentOperations = 2
    /\ \E o \in jobs[j].currentOperations : ops[j][o].timesFailed > 0

\* C2: between callbacks numCurrentOperations is the size of currentOperations,
\* which is at most maxConcurrentOperations
C2_CounterIsSizeOfInFlightSet ==
  \A j \in JobNames :
    /\ jobs[j].numCurrentOperations = Cardinality(jobs[j].currentOperations)
    /\ Cardinality(jobs[j].currentOperations) <= jobs[j].maxConcurrentOperations

\* C3: when JOB_COMPLETED is emitted the backlog and the in-flight set are
\* empty, no transform is executing and no start() is scheduled
C3_CompletedOnlyWhenDrained ==
  \A j \in JobNames :
    hist.atCompletion[j].taken =>
      /\ hist.atCompletion[j].backlogEmpty
      /\ hist.atCompletion[j].inFlightEmpty
      /\ hist.atCompletion[j].noneExecuting
      /\ hist.atCompletion[j].noneScheduled

\* C4: a submitted job emits JOB_COMPLETED exactly once: never twice, and once
\* by the time nothing is left to run
C4_CompletedExactlyOnce ==
  \A j \in JobNames :
    /\ hist.jobCompleted[j] <= 1
    /\ (jobs[j].status # PENDING /\ Quiescent) => hist.jobCompleted[j] = 1

\* JOB_COMPLETED is never emitted twice (the half of C4 the status guard gives)
CompletedAtMostOnce == \A j \in JobNames : hist.jobCompleted[j] <= 1

\* C5: every started job reaches COMPLETED once all its timers have fired and
\* all its transform invocations have settled: when nothing is left to run,
\* every started job has status COMPLETED
C5_StartedJobCompletes ==
  Quiescent => \A j \in JobNames : jobs[j].status # PENDING => jobs[j].status = COMPLETED

\* an operation of Job j is admitted, executing, scheduled or awaiting a retry
Active(j) ==
  \/ jobs[j].currentOperations # {}
  \/ Executing(State, j) # {}
  \/ ScheduledStarts(State, j) # {}
  \/ jobs[j].status # PENDING /\ jobs[j].queuedOperations # <<>>

\* C6: while an operation of one job is active no operation of another job of
\* the queue executes
C6_JobsNeverOverlap ==
  \A a, b \in JobNames :
    a # b => ~(Active(a) /\ Executing(State, b) # {})

\* C7: on queue.events, JOB_STARTED of a later job never precedes JOB_COMPLETED
\* of an earlier one
C7_StartedAfterEarlierCompleted ==
  \A a, b \in JobNames :
    a < b =>
      \A i \in DOMAIN hist.queueEvents :
        hist.queueEvents[i] = <<JOB_STARTED, b>> =>
          \E k \in 1..(i - 1) : hist.queueEvents[k] = <<JOB_COMPLETED, a>>

\* C8: at finalization timesFailed is the number of OPERATION_FAILED signals
\* the job emitted for the operation
C8_FailuresMatchSignals ==
  \A j \in JobNames, o \in OpIds :
    hist.finalized[j][o].taken =>
      hist.finalized[j][o].timesFailed = hist.finalized[j][o].failedSignals

\* C9: the transform of an operation is invoked at most maxFailuresPerOperation
\* times and timesFailed never exceeds maxFailuresPerOperation
C9_AttemptsWithinBudget ==
  \A j \in JobNames : \A o \in Data(j) :
    /\ hist.invocations[j][o] <= jobs[j].maxFailuresPerOperation
    /\ ops[j][o].timesFailed <= jobs[j].maxFailuresPerOperation

\* the transform has succeeded on every attempt of some operations of Job j
\* and failed on every attempt of the others, and there are both
ScenarioA(j) ==
  /\ \A o \in Data(j) : hist.resolved[j][o] = 0 \/ ops[j][o].timesFailed = 0
  /\ \E o \in Data(j) : hist.resolved[j][o] > 0
  /\ \E o \in Data(j) : ops[j][o].timesFailed > 0

\* C10: in the final state of a completed job of that kind every succeeding
\* operation is COMPLETED, every failing one is FAILED with timesFailed =
\* maxFailuresPerOperation, and JOB_COMPLETED was emitted once
C10_ScenarioA ==
  \A j \in JobNames :
    (jobs[j].status = COMPLETED /\ Quiescent /\ ScenarioA(j)) =>
      /\ hist.jobCompleted[j] = 1
      /\ \A o \in Data(j) :
           IF ops[j][o].timesFailed = 0
           THEN ops[j][o].status = COMPLETED
           ELSE /\ ops[j][o].status = FAILED
                /\ ops[j][o].timesFailed = jobs[j].maxFailuresPerOperation

\* C11: with maxFailuresPerOperation = 1 the transform of an operation is
\* invoked at most once, and an operation that has failed is finalized as
\* FAILED at once: it is not in the backlog, not in flight and has no start()
\* scheduled
C11_NoRetryWithBudgetOne ==
  \A j \in JobNames :
    jobs[j].maxFailuresPerOperation = 1 =>
      \A o \in Data(j) :
        /\ hist.invocations[j][o] <= 1
        /\ ops[j][o].timesFailed > 0 =>
             /\ ops[j][o].status = FAILED
             /\ ops[j][o].timesFailed = 1
             /\ hist.finalized[j][o].taken
             /\ o \notin Range(jobs[j].queuedOperations)
             /\ o \notin jobs[j].currentOperations
             /\ o \notin ScheduledStarts(State, j)

\* a job with maxFailuresPerOperation = 1 has completed after an operation
\* failed
C11_Witness ==
  \E j \in JobNames : \E o \in Data(j) :
    /\ jobs[j].maxFailuresPerOperation = 1
    /\ ops[j][o].timesFailed = 1
    /\ hist.invocations[j][o] = 1
    /\ jobs[j].status = COMPLETED

\* C12: the promise queueJob returned for a job is resolved at most once and
\* with the job's name; it is resolved when the job has status COMPLETED, and
\* for every submitted job by the time nothing is left to run
C12_QueuePromiseResolves ==
  \A j \in JobNames :
    /\ Len(hist.queuePromise[j]) <= 1
    /\ \A i \in DOMAIN hist.queuePromise[j] : hist.queuePromise[j][i] = j
    /\ jobs[j].status = COMPLETED => Len(hist.queuePromise[j]) = 1
    /\ (j \in queue.jobIndex /\ Quiescent) => Len(hist.queuePromise[j]) = 1

\* C13: a further call of start() on a started job emits no JOB_STARTED and,
\* through no further dispatch, no JOB_COMPLETED: each signal is emitted at
\* most once however often start() is called
C13_JobStartIdempotent ==
  \A j \in JobNames :
    /\ hist.jobStarted[j] <= 1
    /\ hist.jobCompleted[j] <= 1

\* C14: the start() calls made for one dispatch of an operation emit one
\* OPERATION_STARTED and invoke the transform once: an operation has been started
\* and its transform invoked at most as often as it has been dispatched
C14_OperationStartIdempotent ==
  \A j \in JobNames, o \in OpIds :
    /\ hist.operationStarted[j][o] <= hist.admissions[j][o]
    /\ hist.invocations[j][o] <= hist.admissions[j][o]

\* C15: the export of a job with status COMPLETED lists every data element
\* exactly once, each with status COMPLETED or FAILED
C15_ExportOfCompletedJob ==
  \A j \in JobNames :
    jobs[j].status = COMPLETED =>
      LET operations == JobExport(State, j).operations
      IN /\ \A d \in Data(j) :
              Cardinality({i \in DOMAIN operations : operations[i].data = d}) = 1
         /\ \A i \in DOMAIN operations : operations[i].status \in {COMPLETED, FAILED}

\* C16: with cooldown > 0 no operation of the job is started, and no transform
\* invoked, before a cooldown timer of the job has fired
C16_NoStartBeforeCooldown ==
  \A j \in JobNames :
    jobs[j].cooldown > 0 =>
      \A o \in OpIds :
        (\/ hist.opSignals[j][o].started > 0
         \/ hist.operationStarted[j][o] > 0
         \/ hist.invocations[j][o] > 0
         \/ ops[j][o].status # PENDING) => hist.cooldownFired[j] >= 1

\* the transform of an operation of a job with a cooldown is executing
C16_Witness ==
  \E j \in JobNames, o \in OpIds :
    /\ jobs[j].cooldown > 0
    /\ ops[j][o].status = STARTED
    /\ hist.opSignals[j][o].started = 1

RECURSIVE Sum(_, _)
\* the sum of f over the set S
Sum(f, S) ==
  IF S = {} THEN 0
  ELSE LET x == CHOOSE x \in S : TRUE IN f[x] + Sum(f, S \ {x})

\* the admissions of Job j so far
Admitted(j) == Sum(hist.admissions[j], OpIds)

\* the calls of handleOperationComplete of Job j so far: one for each
\* OPERATION_COMPLETED and OPERATION_FAILED signal of the job
Handled(j) ==
  Sum([o \in OpIds |-> hist.opSignals[j][o].completed + hist.opSignals[j][o].failed],
      OpIds)

\* C17 as stated: the cooldown delay is applied once per job, so a job arms
\* at most one cooldown timer
C17_CooldownOncePerJob ==
  \A j \in JobNames : hist.cooldownArmed[j] <= 1

\* C17, amended: with cooldown > 0 every dispatcher invocation that is not a
\* cooldown timer's callback is delayed by the cooldown: the job has armed one
\* cooldown timer for its start(), one for each settlement it handled and one
\* for the recursive call after each admission
C17_CooldownAtEveryDispatch ==
  \A j \in JobNames :
    jobs[j].cooldown > 0 =>
      hist.cooldownArmed[j] = hist.jobStarted[j] + Handled(j) + Admitted(j)

\* a job with a cooldown has completed after a failure and a retry
C17_Witness ==
  \E j \in JobNames, o \in OpIds :
    /\ jobs[j].cooldown > 0
    /\ hist.admissions[j][o] = 2
    /\ hist.cooldownArmed[j] >= 5
    /\ jobs[j].status = COMPLETED

\* C18: with cooldown > 0 a callback that admits an operation is the callback
\* of a cooldown timer and admits exactly one operation
C18_CooldownBeforeEachAdmission ==
  [][\A j \in JobNames :
       (jobs'[j].cooldown > 0 /\ Admitted(j)' # Admitted(j)) =>
         /\ Admitted(j)' = Admitted(j) + 1
         /\ hist'.cooldownFired[j] = hist.cooldownFired[j] + 1]_vars

\* a job with a cooldown has admitted an operation for a retry while another
\* operation is in flight
C18_Witness ==
  \E j \in JobNames, o \in OpIds :
    /\ jobs[j].cooldown > 0
    /\ hist.admissions[j][o] = 2
    /\ o \in jobs[j].currentOperations
    /\ jobs[j].numCurrentOperations = 2

\* C19: getJobExport for a name in the in-memory index resolves with the
\* export of that job, for either value of includePersisted
C19_ExportOfJobInMemory ==
  (hist.query.call = "getJobExport" /\ hist.query.inMemory) =>
    /\ hist.query.settled.kind = "resolve"
    /\ hist.query.settled.value = JobExport(State, hist.query.name)

\* C20: getJobExport(name, true) of a Queue with no directory, for a name that
\* is not in memory, rejects with the configuration error
C20_NoDirectoryIsRejected ==
  (/\ hist.query.call = "getJobExport"
   /\ ~hist.query.inMemory
   /\ hist.query.includePersisted
   /\ ~queue.persistCompletedJobsToDir) =>
    /\ hist.query.settled.kind = "reject"
    /\ hist.query.settled.value = NoExportDirectory

\* a query that asks for the persisted jobs of a Queue without a directory
UnconfiguredQuery(call) ==
  /\ hist.query.call = call
  /\ hist.query.includePersisted
  /\ ~queue.persistCompletedJobsToDir

\* C21 as stated: hasJob(name, true) and getAllJobs(true) of a Queue without a
\* directory reject, whether or not the name is in memory
C21_UnconfiguredAlwaysRejects ==
  (UnconfiguredQuery("hasJob") \/ UnconfiguredQuery("getAllJobs")) =>
    hist.query.settled.kind = "reject"

\* C21, amended: without a directory getAllJobs(true) rejects with the
\* configuration error, and so does hasJob(name, true) unless the name is in
\* the in-memory index, in which case it resolves true
C21_UnconfiguredRejectsUnlessInMemory ==
  /\ UnconfiguredQuery("getAllJobs") => hist.query.settled = Reject(NoExportDirectory)
  /\ UnconfiguredQuery("hasJob") =>
       hist.query.settled = IF hist.query.inMemory THEN Resolve(TRUE)
                            ELSE Reject(NoExportDirectory)

\* hasJob(name, true) was called for a queued job on a Queue without directory
C21_Witness ==
  /\ UnconfiguredQuery("hasJob")
  /\ hist.query.inMemory
  /\ hist.query.name \in queue.jobIndex

\* C22: for a name that was never submitted getJobExport(name, false) rejects
\* with "Job not found." and hasJob(name, false) resolves false
C22_UnknownNameNotFound ==
  (/\ hist.query.call \in {"getJobExport", "hasJob"}
   /\ ~hist.query.includePersisted
   /\ hist.query.name \notin queue.jobIndex) =>
    hist.query.settled = IF hist.query.call = "getJobExport"
                         THEN Reject(JobNotFound) ELSE Resolve(FALSE)

\* getJobExport(name, false) was called for a name that is not in the Queue
\* which holds another job
C22_Witness ==
  /\ hist.query.call = "getJobExport"
  /\ ~hist.query.includePersisted
  /\ hist.query.name \notin queue.jobIndex
  /\ queue.jobIndex # {}

\* the submitted jobs of the Queue that have status STARTED
Running == {j \in queue.jobIndex : jobs[j].status = STARTED}

\* C23: at most one submitted job has status STARTED, and currentJob is
\* defined exactly when one has, and is that job
C23_CurrentJobIsTheRunningJob ==
  /\ Cardinality(Running) <= 1
  /\ queue.currentJob # NoJob <=> Running # {}
  /\ queue.currentJob # NoJob => Running = {queue.currentJob}

\* the second job runs after the first has completed, and a third waits
C23_Witness ==
  /\ queue.currentJob = 2
  /\ jobs[1].status = COMPLETED
  /\ jobs[2].status = STARTED
  /\ jobs[2].numCurrentOperations > 0

\* C24: every submitted job is started and completed once every timer has
\* fired and every transform invocation has settled: when nothing is left to
\* run, every job of the Queue has emitted JOB_STARTED and has status COMPLETED
C24_QueuedJobsComplete ==
  Quiescent =>
    \A j \in queue.jobIndex : hist.jobStarted[j] >= 1 /\ jobs[j].status = COMPLETED

\* C25: the backlog is first in, first out: no operation is admitted for the
\* first time before a data element that precedes it, and none is re-admitted
\* before an operation that was in the backlog when it was pushed back
C25_BacklogIsFifo ==
  \A j \in JobNames, o \in OpIds : hist.overtaken[j][o] = {}

\* an operation was re-admitted after the operation that was in the backlog
\* when it failed
C25_Witness ==
  \E j \in JobNames : \E o, p \in OpIds :
    /\ o < p
    /\ jobs[j].maxConcurrentOperations = 1
    /\ hist.admissions[j][o] = 2
    /\ hist.admissions[j][p] = 1
    /\ ops[j][p].status = COMPLETED
    /\ o \in jobs[j].currentOperations

\* C26: the result of an operation is set exactly when its status is COMPLETED
\* or FAILED
C26_ResultIffTerminal ==
  \A j \in JobNames : \A o \in Data(j) :
    ops[j][o].result # "unset" <=> ops[j][o].status \in {COMPLETED, FAILED}

\* C27: between callbacks every operation of a constructed job is in exactly
\* one of queuedOperations, currentOperations and completedOperations, once
C27_ExactlyOneCollection ==
  \A j \in JobNames : \A o \in Data(j) :
    Cardinality({i \in DOMAIN jobs[j].queuedOperations : jobs[j].queuedOperations[i] = o})
    + (IF o \in jobs[j].currentOperations THEN 1 ELSE 0)
    + Cardinality({i \in DOMAIN jobs[j].completedOperations :
                     jobs[j].completedOperations[i] = o}) = 1

\* the number of times the signal of Job j is in the log of queue.events
OnQueueEvents(signal, j) ==
  Cardinality({i \in DOMAIN hist.queueEvents : hist.queueEvents[i] = <<signal, j>>})

\* C28: every signal a job of the Queue has emitted was re-emitted once on
\* queue.events: the job signals with the job's name, the operation signals
\* with the operation's id and the job's name
C28_EverySignalForwardedOnce ==
  \A j \in JobNames :
    /\ OnQueueEvents(JOB_STARTED, j) = hist.jobStarted[j]
    /\ OnQueueEvents(JOB_COMPLETED, j) = hist.jobCompleted[j]
    /\ \A o \in OpIds : hist.forwarded[j][o] = hist.opSignals[j][o]

\* the second job of the Queue has completed after a failure and a success
C28_Witness ==
  /\ hist.jobCompleted[2] = 1
  /\ OnQueueEvents(JOB_COMPLETED, 2) = 1
  /\ \E o, p \in OpIds : /\ hist.forwarded[2][o].failed > 0
                          /\ hist.forwarded[2][p].completed > 0
                          /\ hist.forwarded[2][p].started > 0

\* a dispatcher call of Job j is waiting for its cooldown
DispatchPending(j) ==
  \E d \in DOMAIN timers : \E i \in DOMAIN timers[d] :
    timers[d][i].callback = "startNextOperation" /\ timers[d][i].job = j

\* C29: a started, not yet completed job with no dispatcher call pending runs
\* maxConcurrentOperations operations or has an empty backlog
C29_WorkConserving ==
  \A j \in JobNames :
    (jobs[j].status = STARTED /\ ~DispatchPending(j)) =>
      \/ jobs[j].numCurrentOperations = jobs[j].maxConcurrentOperations
      \/ jobs[j].queuedOperations = <<>>

\* a job runs at its limit of one while an operation waits in the backlog for
\* a retry
C29_Witness ==
  \E j \in JobNames :
    /\ jobs[j].status = STARTED
    /\ ~DispatchPending(j)
    /\ jobs[j].maxConcurrentOperations = 1
    /\ jobs[j].numCurrentOperations = 1
    /\ \E o \in Range(jobs[j].queuedOperations) : ops[j][o].timesFailed > 0

\* C30: every admission of an operation scheduled its start() after
\* timesFailed * throttle, timesFailed being the failures of the operation at
\* that admission; a pending start() waits in the timer list of such a delay
C30_StartDelayedByThrottle ==
  \A j \in JobNames, o \in OpIds :
    /\ \A a \in hist.scheduled[j][o] : a.delay = a.timesFailed * jobs[j].throttle
    /\ \A d \in DOMAIN timers : \A i \in DOMAIN timers[d] :
         (timers[d][i].callback = "start" /\ timers[d][i].job = j /\ timers[d][i].op = o)
           => \E a \in hist.scheduled[j][o] : a.delay = d /\ timers[d][i].remaining <= d

\* an operation was admitted after its second failure, with a throttle
C30_Witness ==
  \E j \in JobNames, o \in OpIds :
    /\ jobs[j].throttle > 0
    /\ \E a \in hist.scheduled[j][o] : a.timesFailed = 2 /\ a.delay = 2 * jobs[j].throttle
    /\ \E a \in hist.scheduled[j][o] : a.timesFailed = 0 /\ a.delay = 0

\* C31: the transform of an operation has been invoked once for each of its
\* admissions, as soon as no start() of the operation is still scheduled
C31_OneInvocationPerAdmission ==
  \A j \in JobNames, o \in OpIds :
    o \notin ScheduledStarts(State, j) =>
      hist.invocations[j][o] = hist.admissions[j][o]

\* C35: numCurrentOperations is never negative
C35_CounterNeverNegative ==
  \A j \in JobNames : jobs[j].numCurrentOperations >= 0

\* C36: completedOperations holds operations of the job only, each at most
\* once, so at most as many as there are data elements, and all of them once
\* the job has status COMPLETED
C36_CompletedHoldsOperationsOnce ==
  \A j \in JobNames :
    LET completed == jobs[j].completedOperations
    IN /\ \A i \in DOMAIN completed : completed[i] \in Data(j)
       /\ \A i, k \in DOMAIN completed : completed[i] = completed[k] => i = k
       /\ JobExport(State, j).operationsCompleted <= jobs[j].data
       /\ jobs[j].status = COMPLETED =>
            JobExport(State, j).operationsCompleted = jobs[j].data

\* the transform of the first attempt of operation o of Job j is executing and
\* has not settled
Unsettled(j, o) ==
  /\ ops[j][o].status = STARTED
  /\ hist.resolved[j][o] = 0
  /\ ops[j][o].timesFailed = 0

\* C32: as long as the transform of an operation of a job has not settled the
\* job has not emitted JOB_COMPLETED and no job submitted after it was started
C32_UnsettledTransformStalls ==
  \A j \in JobNames, o \in OpIds :
    Unsettled(j, o) =>
      /\ hist.jobCompleted[j] = 0
      /\ \A k \in JobNames : k > j => hist.jobStarted[k] = 0

\* C33: with a persistence directory, exportJobIfNeeded is invoked at most once
\* for a job submitted with queueJob, and exactly once when the job has
\* completed, a job that completed during the queueJob call included
C33_CompletedJobExportedOnce ==
  \A j \in JobNames :
    (queue.persistCompletedJobsToDir /\ j \in queue.jobIndex) =>
      /\ hist.exports[j] <= 1
      /\ jobs[j].status = COMPLETED => hist.exports[j] = 1

\* C37: once an operation has been moved to completedOperations its transform
\* is not invoked again and its status, result and timesFailed stay as they
\* were at that moment, whatever timers of the job are still pending
C37_TerminalStatesAbsorbing ==
  \A j \in JobNames, o \in OpIds :
    LET final == hist.finalized[j][o]
    IN final.taken =>
         /\ hist.invocations[j][o] = final.invocations
         /\ ops[j][o].status = final.status
         /\ ops[j][o].result = final.result
         /\ ops[j][o].timesFailed = final.timesFailed

\* the position of the first start of Job j among the starts of all jobs, 0
\* when it was not started
FirstStart(j) ==
  LET starts == {i \in DOMAIN hist.startOrder : hist.startOrder[i] = j}
  IN IF starts = {} THEN 0
     ELSE CHOOSE i \in starts : \A k \in starts : i <= k

\* C34: jobs are started in the order they were submitted (the names are given
\* in that order): a started job was started after every job submitted before
\* it, and completedJobs holds the jobs in the order of submission
C34_JobsInSubmissionOrder ==
  /\ \A a, b \in JobNames :
       (a < b /\ FirstStart(b) > 0) =>
         (FirstStart(a) > 0 /\ FirstStart(a) < FirstStart(b))
  /\ \A i, k \in DOMAIN queue.completedJobs :
       i < k => queue.completedJobs[i] < queue.completedJobs[k]

\* three jobs with data were started and completed one after the other, the
\* second and the third promoted from queuedJobs
C34_Witness ==
  /\ \A j \in JobNames : jobs[j].constructed /\ Data(j) # {}
  /\ hist.startOrder = <<1, 2, 3>>
  /\ queue.completedJobs = <<1, 2, 3>>

====
